---- MODULE Spec2Model ----
(***************************************************************************)
(* Kokoro-82M local TTS server (server/local-tts/tts_server.py).           *)
(*                                                                         *)
(* The model follows the module-level state (kokoro, gpu_available), the   *)
(* startup() loader statement by statement, and the three request          *)
(* handlers synthesize(), list_voices() and health().  The handlers are    *)
(* coroutines without an await, so each runs as one step of the event      *)
(* loop; requests are served only after the startup event has returned.    *)
(*                                                                         *)
(* The inference runtime, the WAV writer and the clock are collaborators   *)
(* outside the repository.  Their outcomes (a file exists or not, a        *)
(* constructor raises or not, how long a call took) are choices of the     *)
(* environment; the audio the engine returns is a fixed function of the    *)
(* arguments it is called with.                                            *)
(***************************************************************************)
EXTENDS Integers, Sequences, FiniteSets, Bags, TLC

VARIABLES
    pc,             \* position of startup(): the statement it executes next
    kokoro,         \* module global kokoro: None or the engine it refers to
    gpu_available,  \* module global gpu_available
    loaded,         \* how startup() ended: "pending", "ok", "assets_missing", "failed"
    trace,          \* calls startup() made to its collaborators, in order, with their outcome
    assigns,        \* number of assignments to kokoro so far
    nreq,           \* number of requests served so far
    last,           \* the request served last: endpoint, body, engine calls it made
    resp,           \* the response to the request served last
    audioSeen       \* bag of <<arguments, audio data>>, one copy per successful synthesis

vars == <<pc, kokoro, gpu_available, loaded, trace, assigns, nreq, last, resp, audioSeen>>

----------------------------------------------------------------------------
(* Bounds of the model *)

\* requests served in one run
MaxRequests == 3
\* largest measured inference time, in milliseconds
MaxInferenceMs == 1

----------------------------------------------------------------------------
(* Values *)

None == "None"
CudaEngine == "Kokoro.from_session(cuda)"
CpuEngine == "Kokoro(cpu)"

\* TTSRequest defaults; speed is counted in tenths (10 is 1.0)
DefaultVoice == "af_heart"
DefaultSpeed == 10
DefaultLang == "en-us"
DefaultFormat == "wav"


\* the model identifier health() reports
ModelName == "kokoro-82m-v1.0"

\* VOICES: language -> gender -> ordered list of voices
VOICES ==
    [ en_us |->
        [ female |-> << [id |-> "af_heart", name |-> "Heart", grade |-> "A-"],
                        [id |-> "af_bella", name |-> "Bella", grade |-> "A-"],
                        [id |-> "af_nicole", name |-> "Nicole", grade |-> "B-"],
                        [id |-> "af_sarah", name |-> "Sarah", grade |-> "C+"],
                        [id |-> "af_nova", name |-> "Nova", grade |-> "C"],
                        [id |-> "af_sky", name |-> "Sky", grade |-> "C-"],
                        [id |-> "af_alloy", name |-> "Alloy", grade |-> "C"],
                        [id |-> "af_aoede", name |-> "Aoede", grade |-> "C+"],
                        [id |-> "af_kore", name |-> "Kore", grade |-> "C+"],
                        [id |-> "af_jessica", name |-> "Jessica", grade |-> "D"],
                        [id |-> "af_river", name |-> "River", grade |-> "D"] >>,
          male   |-> << [id |-> "am_fenrir", name |-> "Fenrir", grade |-> "C+"],
                        [id |-> "am_puck", name |-> "Puck", grade |-> "C+"],
                        [id |-> "am_michael", name |-> "Michael", grade |-> "C+"],
                        [id |-> "am_adam", name |-> "Adam", grade |-> "F+"],
                        [id |-> "am_echo", name |-> "Echo", grade |-> "D"],
                        [id |-> "am_eric", name |-> "Eric", grade |-> "D"],
                        [id |-> "am_liam", name |-> "Liam", grade |-> "D"],
                        [id |-> "am_onyx", name |-> "Onyx", grade |-> "D"],
                        [id |-> "am_santa", name |-> "Santa", grade |-> "D-"] >> ],
      en_gb |->
        [ female |-> << [id |-> "bf_alice", name |-> "Alice"],
                        [id |-> "bf_emma", name |-> "Emma"],
                        [id |-> "bf_isabella", name |-> "Isabella"],
                        [id |-> "bf_lily", name |-> "Lily"] >>,
          male   |-> << [id |-> "bm_daniel", name |-> "Daniel"],
                        [id |-> "bm_fable", name |-> "Fable"],
                        [id |-> "bm_george", name |-> "George"],
                        [id |-> "bm_lewis", name |-> "Lewis"] >> ] ]

\* the voice ids the catalog lists
CatalogIds ==
    UNION { { VOICES[l][g][i].id : i \in 1..Len(VOICES[l][g]) } :
            l \in DOMAIN VOICES, g \in {"female", "male"} }

----------------------------------------------------------------------------
(* Request bodies *)

\* the values a field of the JSON body takes in the model: "jf_alpha" is a
\* voice of the embeddings file that VOICES does not list, "xx" is a
\* language the engine does not know
Texts == {"Hi"}
Voices == {"jf_alpha"}
Speeds == {20}
Langs == {"xx"}

\* a JSON object that carries field f with a value of S, or does not carry it
Optional(f, S) == { (f :> v) : v \in S } \cup { <<>> }

\* the JSON bodies of the model: objects with any subset of these fields
\* (format, which the handler never reads, is left out of every body)
Bodies ==
    { t @@ v @@ s @@ l :
        t \in Optional("text", Texts),
        v \in Optional("voice", Voices),
        s \in Optional("speed", Speeds),
        l \in Optional("lang", Langs) }

\* a field of the body, or the model's default when the body omits it
FieldOr(body, f, default) == IF f \in DOMAIN body THEN body[f] ELSE default

\* text: str = "" instead of a required field
TTSRequest_TextOptional(body) ==
    [ ok     |-> TRUE,
      text   |-> FieldOr(body, "text", ""),
      voice  |-> FieldOr(body, "voice", DefaultVoice),
      speed  |-> FieldOr(body, "speed", DefaultSpeed),
      lang   |-> FieldOr(body, "lang", DefaultLang),
      format |-> FieldOr(body, "format", DefaultFormat) ]

\* TTSRequest: text is required, the other fields have defaults.  The
\* framework builds the model from the body before it calls the handler and
\* answers 422 itself when it cannot.
TTSRequest(body) ==
    IF "text" \notin DOMAIN body
    THEN [ ok |-> FALSE ]
    ELSE [ ok     |-> TRUE,
           text   |-> body.text,
           voice  |-> FieldOr(body, "voice", DefaultVoice),
           speed  |-> FieldOr(body, "speed", DefaultSpeed),
           lang   |-> FieldOr(body, "lang", DefaultLang),
           format |-> FieldOr(body, "format", DefaultFormat) ]

----------------------------------------------------------------------------
(* The engine: Kokoro.create(text, voice, speed, lang) *)

\* the voices of the embeddings file: those of the catalog and others
EngineVoices == CatalogIds \cup {"jf_alpha"}
EngineLangs == {"en-us", "en-gb"}

\* the waveform of a text at speed 1.0, as 16-bit samples
Waveform(text) ==
    CASE text = ""       -> <<>>
      [] text = "Hi"     -> <<1200, -700, 310, -32768>>
      [] text = "Hello." -> <<900, -1, 32767, 255, -256, 4>>
      [] OTHER           -> <<1>>

\* what a voice and a language add to every sample
Timbre(voice, lang) ==
    (IF voice = DefaultVoice THEN 0 ELSE 3) + (IF lang = DefaultLang THEN 0 ELSE 64)

Clip(x) == IF x > 32767 THEN 32767 ELSE IF x < -32768 THEN -32768 ELSE x

\* the engine is deterministic: it either raises with a message or returns
\* (samples, sample_rate), and which one depends on its arguments only.
\* A faster speed yields proportionally fewer samples.
EngineCreate(text, voice, speed, lang) ==
    IF voice \notin EngineVoices
    THEN [ raised |-> TRUE, message |-> "voice not found in the embeddings" ]
    ELSE IF lang \notin EngineLangs
    THEN [ raised |-> TRUE, message |-> "language not supported" ]
    ELSE LET w == Waveform(text)
             n == (Len(w) * 10) \div speed
         IN  [ raised      |-> FALSE,
               samples     |-> [ i \in 1..n |-> Clip(w[i] + Timbre(voice, lang)) ],
               sample_rate |-> 24000 ]

----------------------------------------------------------------------------
(* sf.write(buffer, samples, sample_rate, format="WAV") *)

\* little-endian bytes of an unsigned number
LE16(n) == << n % 256, (n \div 256) % 256 >>
LE32(n) == << n % 256, (n \div 256) % 256, (n \div 65536) % 256, (n \div 16777216) % 256 >>

\* a signed 16-bit sample in two's complement
Unsigned16(x) == (x + 65536) % 65536

RECURSIVE PcmData(_)
PcmData(samples) ==
    IF samples = <<>> THEN <<>>
    ELSE LE16(Unsigned16(Head(samples))) \o PcmData(Tail(samples))

\* a mono 16-bit PCM RIFF/WAVE container
WavBytes(samples, sample_rate) ==
    LET data == PcmData(samples)
    IN  <<82, 73, 70, 70>> \o LE32(36 + Len(data)) \o <<87, 65, 86, 69>>
        \o <<102, 109, 116, 32>> \o LE32(16) \o LE16(1) \o LE16(1)
        \o LE32(sample_rate) \o LE32(sample_rate * 2) \o LE16(2) \o LE16(16)
        \o <<100, 97, 116, 97>> \o LE32(Len(data)) \o data

----------------------------------------------------------------------------
(* base64.b64encode(audio_bytes).decode("utf-8") *)

B64Alphabet ==
    << "A", "B", "C", "D", "E", "F", "G", "H", "I", "J", "K", "L", "M",
       "N", "O", "P", "Q", "R", "S", "T", "U", "V", "W", "X", "Y", "Z",
       "a", "b", "c", "d", "e", "f", "g", "h", "i", "j", "k", "l", "m",
       "n", "o", "p", "q", "r", "s", "t", "u", "v", "w", "x", "y", "z",
       "0", "1", "2", "3", "4", "5", "6", "7", "8", "9", "+", "/" >>

B64Char(sextet) == B64Alphabet[sextet + 1]

\* three bytes make four characters; a last group of one or two bytes is
\* padded with "="
RECURSIVE B64Encode(_)
B64Encode(bytes) ==
    IF Len(bytes) = 0 THEN <<>>
    ELSE IF Len(bytes) = 1
    THEN << B64Char(bytes[1] \div 4), B64Char((bytes[1] % 4) * 16), "=", "=" >>
    ELSE IF Len(bytes) = 2
    THEN << B64Char(bytes[1] \div 4),
            B64Char((bytes[1] % 4) * 16 + bytes[2] \div 16),
            B64Char((bytes[2] % 16) * 4), "=" >>
    ELSE << B64Char(bytes[1] \div 4),
            B64Char((bytes[1] % 4) * 16 + bytes[2] \div 16),
            B64Char((bytes[2] % 16) * 4 + bytes[3] \div 64),
            B64Char(bytes[3] % 64) >>
         \o B64Encode(SubSeq(bytes, 4, Len(bytes)))

----------------------------------------------------------------------------
(* Initial state: the module has been imported, startup() has not run *)

Init ==
    /\ pc = "exists_model"
    /\ kokoro = None
    /\ gpu_available = FALSE
    /\ loaded = "pending"
    /\ trace = <<>>
    /\ assigns = 0
    /\ nreq = 0
    /\ last = [ op |-> "none", body |-> <<>>, fault |-> "none", calls |-> <<>> ]
    /\ resp = [ status |-> 0 ]
    /\ audioSeen = EmptyBag

----------------------------------------------------------------------------
(* startup() *)

\* startup() calls a collaborator and gets a result
Call(name, result) == trace' = Append(trace, [ call |-> name, result |-> result ])

\* kokoro = <engine>
AssignKokoro(engine) == kokoro' = engine /\ assigns' = assigns + 1

\* startup() returns and the server starts to serve
Return(how) == pc' = "done" /\ loaded' = how

requestState == <<nreq, last, resp, audioSeen>>

\* if not os.path.exists(MODEL_PATH): ... return
ExistsModel ==
    /\ pc = "exists_model"
    /\ \E exists \in BOOLEAN :
        /\ Call("os.path.exists(MODEL_PATH)", IF exists THEN "True" ELSE "False")
        /\ IF exists
           THEN pc' = "exists_voices" /\ UNCHANGED loaded
           ELSE Return("assets_missing")
    /\ UNCHANGED <<kokoro, gpu_available, assigns, requestState>>

\* the voices check logs its error and goes on instead of returning
ExistsVoices_NoReturn ==
    /\ pc = "exists_voices"
    /\ \E exists \in BOOLEAN :
        Call("os.path.exists(VOICES_PATH)", IF exists THEN "True" ELSE "False")
    /\ pc' = "providers"
    /\ UNCHANGED <<kokoro, gpu_available, loaded, assigns, requestState>>

\* if not os.path.exists(VOICES_PATH): ... return
ExistsVoices ==
    /\ pc = "exists_voices"
    /\ \E exists \in BOOLEAN :
        /\ Call("os.path.exists(VOICES_PATH)", IF exists THEN "True" ELSE "False")
        /\ IF exists
           THEN pc' = "providers" /\ UNCHANGED loaded
           ELSE Return("assets_missing")
    /\ UNCHANGED <<kokoro, gpu_available, assigns, requestState>>

\* import onnxruntime as ort; providers = ort.get_available_providers();
\* if "CUDAExecutionProvider" in providers: ... else: ...
\* An exception goes to the outer except clause.
GetProviders ==
    /\ pc = "providers"
    /\ \E result \in {"raise", "cuda", "cpu_only"} :
        /\ Call("ort.get_available_providers", result)
        /\ CASE result = "raise"    -> Return("failed")
             [] result = "cuda"     -> pc' = "cuda_session" /\ UNCHANGED loaded
             [] result = "cpu_only" -> pc' = "cpu_engine" /\ UNCHANGED loaded
    /\ UNCHANGED <<kokoro, gpu_available, assigns, requestState>>

\* the session is created outside the inner try: its exception ends the load
CudaSession_NoFallback ==
    /\ pc = "cuda_session"
    /\ \E result \in {"raise", "ok"} :
        /\ Call("ort.InferenceSession(cuda)", result)
        /\ IF result = "ok"
           THEN pc' = "cuda_engine" /\ UNCHANGED loaded
           ELSE Return("failed")
    /\ UNCHANGED <<kokoro, gpu_available, assigns, requestState>>

\* session = ort.InferenceSession(MODEL_PATH, providers=[CUDA, CPU]);
\* an exception goes to the inner except clause
CudaSession ==
    /\ pc = "cuda_session"
    /\ \E result \in {"raise", "ok"} :
        /\ Call("ort.InferenceSession(cuda)", result)
        /\ pc' = IF result = "ok" THEN "cuda_engine" ELSE "cpu_fallback"
    /\ UNCHANGED <<kokoro, gpu_available, loaded, assigns, requestState>>

\* gpu_available = True is written before the engine is constructed
CudaFromSession_FlagFirst ==
    /\ pc = "cuda_engine"
    /\ gpu_available' = TRUE
    /\ \E result \in {"raise", "ok"} :
        /\ Call("Kokoro.from_session", result)
        /\ IF result = "ok"
           THEN AssignKokoro(CudaEngine) /\ pc' = "warmup"
           ELSE pc' = "cpu_fallback" /\ UNCHANGED <<kokoro, assigns>>
    /\ UNCHANGED <<loaded, requestState>>

\* kokoro = Kokoro.from_session(session, VOICES_PATH);
\* an exception goes to the inner except clause before kokoro is assigned
CudaFromSession ==
    /\ pc = "cuda_engine"
    /\ \E result \in {"raise", "ok"} :
        /\ Call("Kokoro.from_session", result)
        /\ IF result = "ok"
           THEN AssignKokoro(CudaEngine) /\ pc' = "cuda_flag"
           ELSE pc' = "cpu_fallback" /\ UNCHANGED <<kokoro, assigns>>
    /\ UNCHANGED <<gpu_available, loaded, requestState>>

\* gpu_available = True
CudaFlag ==
    /\ pc = "cuda_flag"
    /\ gpu_available' = TRUE
    /\ pc' = "warmup"
    /\ UNCHANGED <<kokoro, loaded, trace, assigns, requestState>>

\* except Exception as gpu_err: kokoro = Kokoro(MODEL_PATH, VOICES_PATH);
\* an exception raised here goes to the outer except clause
CpuFallback ==
    /\ pc = "cpu_fallback"
    /\ \E result \in {"raise", "ok"} :
        /\ Call("Kokoro(cpu)", result)
        /\ IF result = "ok"
           THEN AssignKokoro(CpuEngine) /\ pc' = "warmup" /\ UNCHANGED loaded
           ELSE Return("failed") /\ UNCHANGED <<kokoro, assigns>>
    /\ UNCHANGED <<gpu_available, requestState>>

\* else: kokoro = Kokoro(MODEL_PATH, VOICES_PATH)
CpuLoad ==
    /\ pc = "cpu_engine"
    /\ \E result \in {"raise", "ok"} :
        /\ Call("Kokoro(cpu)", result)
        /\ IF result = "ok"
           THEN AssignKokoro(CpuEngine) /\ pc' = "warmup" /\ UNCHANGED loaded
           ELSE Return("failed") /\ UNCHANGED <<kokoro, assigns>>
    /\ UNCHANGED <<gpu_available, requestState>>

\* _ = kokoro.create("Hello.", voice="af_heart", speed=1.0, lang="en-us");
\* the first inference initialises the runtime lazily and may raise, which
\* goes to the outer except clause: it logs and startup() returns
Warmup ==
    /\ pc = "warmup"
    /\ \E result \in {"raise", "ok"} :
        /\ Call("kokoro.create(warmup)", result)
        /\ Return(IF result = "ok" THEN "ok" ELSE "failed")
    /\ UNCHANGED <<kokoro, gpu_available, assigns, requestState>>

----------------------------------------------------------------------------
(* Request handlers *)

\* what the environment does to one synthesis: nothing, or the inference
\* fails at run time, or the WAV writer fails.  Only a call that is made can
\* fail, and only a call that returned has a duration to report.
Faults == IF kokoro = None THEN {"none"} ELSE {"none", "engine", "encode"}
Durations(fault) == IF fault = "none" /\ kokoro # None THEN 0..MaxInferenceMs ELSE {0}

HTTPException(status_code, detail) == [ status |-> status_code, detail |-> detail ]

\* the framework's answer to a body that TTSRequest does not accept
ValidationError == [ status |-> 422, detail |-> "text: field required" ]

\* kokoro.create(...) in the running process; on None it is an AttributeError
KokoroCreate(fault, text, voice, speed, lang) ==
    IF kokoro = None
    THEN [ raised |-> TRUE, message |-> "'NoneType' object has no attribute 'create'" ]
    ELSE IF fault = "engine"
    THEN [ raised |-> TRUE, message |-> "inference failed at run time" ]
    ELSE EngineCreate(text, voice, speed, lang)

\* sf.write(...) and buffer.getvalue() in the running process
SfWrite(fault, samples, sample_rate) ==
    IF fault = "encode"
    THEN [ raised |-> TRUE, message |-> "error writing the WAV container" ]
    ELSE [ raised |-> FALSE, bytes |-> WavBytes(samples, sample_rate) ]

\* the readiness check is left out
ModelNotLoaded_Never == FALSE

\* if kokoro is None
ModelNotLoaded == kokoro = None

\* a voice the catalog does not list is replaced by the default voice
EngineArgs_ValidatesVoice(req) ==
    << req.text, IF req.voice \in CatalogIds THEN req.voice ELSE DefaultVoice,
       req.speed, req.lang >>

\* the arguments of kokoro.create: req.text, voice=req.voice, speed=req.speed,
\* lang=req.lang
EngineArgs(req) == << req.text, req.voice, req.speed, req.lang >>

\* a call that raised is made a second time
InvokeEngine_RetryOnce(req, fault) ==
    LET args  == EngineArgs(req)
        first == KokoroCreate(fault, args[1], args[2], args[3], args[4])
    IN  IF first.raised
        THEN [ created |-> KokoroCreate("none", args[1], args[2], args[3], args[4]),
               calls   |-> IF kokoro = None THEN <<>> ELSE <<args, args>> ]
        ELSE [ created |-> first, calls |-> <<args>> ]

\* samples, sample_rate = kokoro.create(...): what the call gave, and the
\* calls that reached the engine
InvokeEngine(req, fault) ==
    LET args == EngineArgs(req)
    IN  [ created |-> KokoroCreate(fault, args[1], args[2], args[3], args[4]),
          calls   |-> IF kokoro = None THEN <<>> ELSE <<args>> ]

\* synthesize(req): the response, and the calls made to the engine
synthesize(req, fault, ms) ==
    IF ModelNotLoaded
    THEN [ resp  |-> HTTPException(503, "Model not loaded. Run setup.bat first."),
           calls |-> <<>> ]
    ELSE LET invoked == InvokeEngine(req, fault)
             created == invoked.created
         IN  IF created.raised
             THEN [ resp |-> HTTPException(500, created.message), calls |-> invoked.calls ]
             ELSE LET written == SfWrite(fault, created.samples, created.sample_rate)
                  IN  IF written.raised
                      THEN [ resp  |-> HTTPException(500, written.message),
                             calls |-> invoked.calls ]
                      ELSE [ resp  |-> [ status |-> 200,
                                         body   |-> [ success      |-> TRUE,
                                                      audioData    |-> B64Encode(written.bytes),
                                                      format       |-> "wav",
                                                      inference_ms |-> ms,
                                                      gpu          |-> gpu_available ] ],
                             calls |-> invoked.calls ]

\* list_voices()
list_voices == [ status |-> 200, body |-> [ voices |-> VOICES ] ]

\* status is "ok" whether or not the model is loaded
health_AlwaysOk ==
    [ status |-> 200,
      body   |-> [ status       |-> "ok",
                   model_loaded |-> kokoro # None,
                   gpu          |-> gpu_available,
                   model        |-> ModelName ] ]

\* health()
health ==
    [ status |-> 200,
      body   |-> [ status       |-> IF kokoro # None THEN "ok" ELSE "model_not_loaded",
                   model_loaded |-> kokoro # None,
                   gpu          |-> gpu_available,
                   model        |-> ModelName ] ]

Serving == pc = "done" /\ nreq < MaxRequests

startupState == <<pc, loaded, trace, assigns>>

\* an engine that raised is dropped: kokoro = None in the except clause
PostSynthesize_DropsEngineOnError ==
    /\ Serving
    /\ \E body \in Bodies, fault \in Faults : \E ms \in Durations(fault) :
        LET req == TTSRequest(body)
        IN  IF ~req.ok
            THEN /\ resp' = ValidationError
                 /\ last' = [ op |-> "synthesize", body |-> body, fault |-> "none",
                              calls |-> <<>> ]
                 /\ UNCHANGED <<audioSeen, kokoro>>
            ELSE LET out == synthesize(req, fault, ms)
                 IN  /\ resp' = out.resp
                     /\ last' = [ op |-> "synthesize", body |-> body,
                                  fault |-> IF out.calls = <<>> THEN "none" ELSE fault,
                                  calls |-> out.calls ]
                     /\ audioSeen' =
                          IF out.resp.status = 200
                          THEN audioSeen (+)
                               SetToBag({ << <<req.text, req.voice, req.speed, req.lang>>,
                                             out.resp.body.audioData >> })
                          ELSE audioSeen
                     /\ kokoro' = IF out.resp.status = 500 THEN None ELSE kokoro
    /\ nreq' = nreq + 1
    /\ UNCHANGED <<gpu_available, startupState>>

\* POST /synthesize: the framework validates the body, then calls the handler
PostSynthesize ==
    /\ Serving
    /\ \E body \in Bodies, fault \in Faults : \E ms \in Durations(fault) :
        LET req == TTSRequest(body)
        IN  IF ~req.ok
            THEN /\ resp' = ValidationError
                 /\ last' = [ op |-> "synthesize", body |-> body, fault |-> "none",
                              calls |-> <<>> ]
                 /\ UNCHANGED <<audioSeen>>
            ELSE LET out == synthesize(req, fault, ms)
                 IN  /\ resp' = out.resp
                     /\ last' = [ op |-> "synthesize", body |-> body,
                                  fault |-> IF out.calls = <<>> THEN "none" ELSE fault,
                                  calls |-> out.calls ]
                     /\ audioSeen' =
                          IF out.resp.status = 200
                          THEN audioSeen (+)
                               SetToBag({ << <<req.text, req.voice, req.speed, req.lang>>,
                                             out.resp.body.audioData >> })
                          ELSE audioSeen
    /\ nreq' = nreq + 1
    /\ UNCHANGED <<kokoro, gpu_available, startupState>>

\* GET /voices
GetVoices ==
    /\ Serving
    /\ resp' = list_voices
    /\ last' = [ op |-> "voices", body |-> <<>>, fault |-> "none", calls |-> <<>> ]
    /\ nreq' = nreq + 1
    /\ UNCHANGED <<kokoro, gpu_available, startupState, audioSeen>>

\* GET /health
GetHealth ==
    /\ Serving
    /\ resp' = health
    /\ last' = [ op |-> "health", body |-> <<>>, fault |-> "none", calls |-> <<>> ]
    /\ nreq' = nreq + 1
    /\ UNCHANGED <<kokoro, gpu_available, startupState, audioSeen>>

----------------------------------------------------------------------------
(* The server *)

Next ==
    \/ ExistsModel
    \/ ExistsVoices
    \/ GetProviders
    \/ CudaSession
    \/ CudaFromSession
    \/ CudaFlag
    \/ CpuFallback
    \/ CpuLoad
    \/ Warmup
    \/ PostSynthesize
    \/ GetVoices
    \/ GetHealth

Spec == Init /\ [][Next]_vars

----------------------------------------------------------------------------
(* Vocabulary of the properties *)

Done == pc = "done"

\* startup() made this call and got this result
Called(name, result) ==
    \E i \in DOMAIN trace : trace[i] = [ call |-> name, result |-> result ]

\* how often startup() made this call
Count(name) == Cardinality({ i \in DOMAIN trace : trace[i].call = name })

WarmupRaised == Called("kokoro.create(warmup)", "raise")

AssetMissing ==
    \/ Called("os.path.exists(MODEL_PATH)", "False")
    \/ Called("os.path.exists(VOICES_PATH)", "False")

CudaListed == Called("ort.get_available_providers", "cuda")

CudaConstructionRaised ==
    \/ Called("ort.InferenceSession(cuda)", "raise")
    \/ Called("Kokoro.from_session", "raise")

\* the request served last was a POST /synthesize whose body has / lacks text
WellFormed(l) == l.op = "synthesize" /\ "text" \in DOMAIN l.body
Malformed(l) == l.op = "synthesize" /\ "text" \notin DOMAIN l.body

\* this step serves a request
Serves == nreq' = nreq + 1

\* the (text, voice, speed, lang) of a well-formed body
RequestArgs(body) ==
    << body.text,
       IF "voice" \in DOMAIN body THEN body.voice ELSE "af_heart",
       IF "speed" \in DOMAIN body THEN body.speed ELSE 10,
       IF "lang" \in DOMAIN body THEN body.lang ELSE "en-us" >>

----------------------------------------------------------------------------
(* C1 *)

\* C1: whenever the engine was constructed and the warm-up call raised, the
\* handle is unset once startup() has returned: /health reports the model
\* not loaded and a POST /synthesize that reaches the handler is answered 503.
C1_WarmupFailureLeavesHandleUnset ==
    (Done /\ WarmupRaised) =>
        /\ kokoro = None
        /\ last.op = "health" => ~resp.body.model_loaded
        /\ WellFormed(last) => resp.status = 503

----------------------------------------------------------------------------
(* C2 *)

----------------------------------------------------------------------------
(* C3 *)

\* C3: in every step, the handle is assigned at most once and only by
\* startup(); once set it never changes; after a load that failed or found
\* an asset missing it never becomes set; once startup() has returned no
\* request, successful or failing, changes the handle or the device flag.
C3_WriteOnce ==
    [][ /\ assigns' <= 1
        /\ (kokoro' # kokoro) => (pc # "done" /\ kokoro = None /\ assigns' = assigns + 1)
        /\ (kokoro # None) => (kokoro' = kokoro)
        /\ (loaded \in {"failed", "assets_missing"}) => (kokoro' = kokoro)
        /\ Done => (kokoro' = kokoro /\ gpu_available' = gpu_available)
      ]_vars

C3_Witness ==
    /\ nreq = MaxRequests
    /\ kokoro = CudaEngine
    /\ gpu_available
    /\ assigns = 1
    /\ WellFormed(last)
    /\ resp.status = 500

----------------------------------------------------------------------------
(* C4 *)

\* C4: once an asset file was found missing, startup() has returned having
\* made no call but the existence checks (no provider enumeration, no engine
\* construction, no warm-up), the handle is unset, the device flag is false,
\* and the requests served afterwards see the unready server.
C4_AssetMissing ==
    AssetMissing =>
        /\ Done
        /\ loaded = "assets_missing"
        /\ kokoro = None
        /\ ~gpu_available
        /\ assigns = 0
        /\ \A i \in DOMAIN trace :
              trace[i].call \in {"os.path.exists(MODEL_PATH)", "os.path.exists(VOICES_PATH)"}
        /\ last.op = "health" => resp.body.status = "model_not_loaded"
        /\ WellFormed(last) => resp.status = 503

C4_Witness ==
    /\ Called("os.path.exists(MODEL_PATH)", "True")
    /\ Called("os.path.exists(VOICES_PATH)", "False")
    /\ last.op = "health"
    /\ resp.status = 200

----------------------------------------------------------------------------
(* C5 *)

\* C5: when startup() has returned and the accelerated device was listed and
\* constructing the engine on it raised, the default-device construction was
\* attempted exactly once, after that failure; if it and the warm-up
\* succeeded the handle is the default-device engine and the flag is false;
\* the handle is unset only if the default-device construction raised too.
\* When no accelerated device was listed, no accelerated construction was
\* attempted and the default-device construction was attempted once.
C5_TwoStepFallback ==
    /\ (Done /\ CudaListed /\ CudaConstructionRaised) =>
          /\ Count("Kokoro(cpu)") = 1
          /\ trace[Len(trace)].call \in {"Kokoro(cpu)", "kokoro.create(warmup)"}
          /\ \A i, j \in DOMAIN trace :
                (trace[i].result = "raise" /\ trace[j].call = "Kokoro(cpu)"
                   /\ trace[i].call \in {"ort.InferenceSession(cuda)", "Kokoro.from_session"})
                => i + 1 = j
          /\ (Called("Kokoro(cpu)", "ok") /\ Called("kokoro.create(warmup)", "ok")) =>
                (kokoro = CpuEngine /\ ~gpu_available /\ loaded = "ok")
          /\ (kokoro = None) => Called("Kokoro(cpu)", "raise")
    /\ (Done /\ Called("ort.get_available_providers", "cpu_only")) =>
          /\ Count("ort.InferenceSession(cuda)") = 0
          /\ Count("Kokoro.from_session") = 0
          /\ Count("Kokoro(cpu)") = 1
          /\ ~gpu_available

C5_Witness ==
    /\ Done
    /\ Called("ort.InferenceSession(cuda)", "ok")
    /\ Called("Kokoro.from_session", "raise")
    /\ Called("Kokoro(cpu)", "ok")
    /\ Called("kokoro.create(warmup)", "ok")
    /\ kokoro = CpuEngine
    /\ ~gpu_available

----------------------------------------------------------------------------
(* C6 *)

\* what the collaborators do for a request: the exception message of the
\* engine or of the WAV writer, or "" when neither raises
RaisedMessage(l) ==
    LET a == RequestArgs(l.body)
        e == EngineCreate(a[1], a[2], a[3], a[4])
    IN  CASE l.fault = "engine" -> "inference failed at run time"
          [] e.raised           -> e.message
          [] l.fault = "encode" -> "error writing the WAV container"
          [] OTHER              -> ""

\* C6: every step that serves a well-formed POST /synthesize while the
\* handle is set calls the engine exactly once; if the engine or the
\* encoding raises, the response is a 500 whose detail is the exception's
\* message and nothing else (no success, no audio, no second call);
\* otherwise it is the success result; and the step leaves the handle and
\* the device flag as they were.
C6_OneCallAnd500 ==
    [][ (Serves /\ WellFormed(last') /\ kokoro # None) =>
          /\ Len(last'.calls) = 1
          /\ IF RaisedMessage(last') # ""
             THEN /\ resp' = [ status |-> 500, detail |-> RaisedMessage(last') ]
                  /\ audioSeen' = audioSeen
             ELSE /\ resp'.status = 200
                  /\ resp'.body.success
          /\ kokoro' = kokoro
          /\ gpu_available' = gpu_available
      ]_vars

\* a request failed by the encoding, served as the second request or later
C6_Witness ==
    /\ kokoro # None
    /\ nreq >= 2
    /\ WellFormed(last)
    /\ last.fault = "encode"
    /\ Len(last.calls) = 1
    /\ resp = [ status |-> 500, detail |-> "error writing the WAV container" ]

----------------------------------------------------------------------------
(* C7 *)

\* C7: every step that serves a POST /synthesize whose body lacks text, with
\* the handle set or unset, answers with a 4xx status, calls the engine not
\* at all, and changes neither the handle, the device flag nor anything else
\* the requests share.
C7_MalformedRejected ==
    [][ (Serves /\ Malformed(last')) =>
          /\ resp'.status \in 400..499
          /\ last'.calls = <<>>
          /\ UNCHANGED <<kokoro, gpu_available, audioSeen, startupState>>
      ]_vars

C7_Witness ==
    /\ kokoro # None
    /\ Malformed(last)
    /\ DOMAIN last.body = {"voice", "speed", "lang"}
    /\ resp.status = 422

----------------------------------------------------------------------------
(* C8 *)

\* C8: every step that serves /health answers 200 with status "ok" exactly
\* when the handle is set, model_loaded true exactly when the handle is set,
\* gpu equal to the device flag and the model identifier "kokoro-82m-v1.0";
\* it calls the engine not at all and changes no state of the server.
C8_Health ==
    [][ (Serves /\ last'.op = "health") =>
          /\ resp'.status = 200
          /\ DOMAIN resp'.body = {"status", "model_loaded", "gpu", "model"}
          /\ (resp'.body.status = "ok") <=> (kokoro # None)
          /\ resp'.body.model_loaded <=> (kokoro # None)
          /\ resp'.body.gpu <=> gpu_available
          /\ resp'.body.model = "kokoro-82m-v1.0"
          /\ last'.calls = <<>>
          /\ UNCHANGED <<kokoro, gpu_available, audioSeen, startupState>>
      ]_vars

C8_Witness ==
    /\ last.op = "health"
    /\ kokoro = None
    /\ loaded = "failed"
    /\ resp.body.status = "model_not_loaded"
    /\ ~resp.body.model_loaded

----------------------------------------------------------------------------
(* C9 *)

\* C9: a POST /synthesize that reaches the engine calls it with exactly the
\* (text, voice, speed, lang) of the request, whether or not the catalog
\* lists the voice; every audio data returned so far is the encoding of what
\* the engine gives for the request's arguments; and any two successful
\* requests with the same arguments, whatever was served between them,
\* returned the same audio data.
C9_PassThrough ==
    /\ (WellFormed(last) /\ last.calls # <<>>) =>
          last.calls = << RequestArgs(last.body) >>
    /\ \A p \in BagToSet(audioSeen) :
          LET e == EngineCreate(p[1][1], p[1][2], p[1][3], p[1][4])
          IN  ~e.raised /\ p[2] = B64Encode(WavBytes(e.samples, e.sample_rate))
    /\ \A p, q \in BagToSet(audioSeen) : (p[1] = q[1]) => (p[2] = q[2])

\* the same arguments, with a voice the catalog does not list, were
\* synthesized twice and another synthesis was served in the same run
C9_Witness ==
    \E p, q \in BagToSet(audioSeen) :
        /\ CopiesIn(p, audioSeen) >= 2
        /\ p[1][2] = "jf_alpha"
        /\ p[1][2] \notin CatalogIds
        /\ q[1] # p[1]
        /\ q[2] # p[2]

----------------------------------------------------------------------------
(* C10 *)

\* C10: in every state, the intermediate states of startup() included, the
\* device flag is true only if the handle is set and is the engine built on
\* the accelerated device; it is never true after a default-device
\* construction was attempted.
C10_FlagImpliesCuda ==
    gpu_available => (kokoro = CudaEngine /\ Count("Kokoro(cpu)") = 0)

\* inside startup(): the flag is set, the warm-up has not run yet
C10_Witness ==
    /\ pc = "warmup"
    /\ gpu_available
    /\ kokoro = CudaEngine

====
